---------------------------- MODULE Spec2Model ----------------------------
(***************************************************************************)
(* Model of the splitting validator of the task-chain workload handler     *)
(* (src/src/python/Components/Workload/TaskChainWorkloadHandler.py).       *)
(*                                                                         *)
(* Numbers.  Python mixes ints and floats; every number of the model is an *)
(* exact rational <<n, d>> with d > 0, kept in lowest terms.  None, and a   *)
(* key that a dict does not hold, is the empty tuple <<>>.                  *)
(***************************************************************************)
EXTENDS Integers, Sequences, FiniteSets, TLC

VARIABLES
    wfSchema,            \* self.wfSchema: the chain's task sub-schemas, in key order
    wfSchema0,           \* the chain schema as the handler was constructed with it
    relval,              \* what self.isRelVal() answers
    dbs,                 \* what the dataset metadata source answers for the chain's input
    cfg,                 \* self.unifiedConfiguration: the named thresholds
    splittings,          \* the caller's splitting-entry list (mutated in place)
    splittings0,         \* the entries as they were when the running call began
    pc,                  \* position of checkSplitting: idle, loop, after, done, failed
    pass,                \* number of checkSplitting calls begun so far
    idx,                 \* index of the entry the for loop takes next
    hold,                \* local hold
    modifiedSplittings,  \* local modifiedSplittings: indices of the appended entries
    eventsPerLumi,       \* local eventsPerLumi
    inputEventsPerLumi,  \* local inputEventsPerLumi
    maxEventsPerLumi,    \* local maxEventsPerLumi: the list of bounds
    smallLumi,           \* local smallLumi
    schema,              \* local schema: the handle _getTaskSchema returned last
    result,              \* what the call returned: <<hold, modified>> or None
    error,               \* the exception the except clause caught and logged, or None
    effPc,               \* position of a stand-alone _getTaskEfficiencyFactor call
    effStart,            \* the schema that call was given
    effSchema,           \* the schema of its current recursive invocation
    effAcc,              \* the efficiencyFactor argument of that invocation
    effDepth,            \* number of recursive invocations made so far
    effResult,           \* what the call returned
    timeLog,             \* the stand-alone _getTaskMaxEventsByTime calls made: args, result
    sizeCall,            \* the stand-alone _getTaskMaxEventsBySize call made, or None
    convCall             \* the isGoodToConvertToStepChain call made, or None

vars == <<wfSchema, wfSchema0, relval, dbs, cfg, splittings, splittings0, pc, pass, idx, hold,
          modifiedSplittings, eventsPerLumi, inputEventsPerLumi, maxEventsPerLumi,
          smallLumi, schema, result, error, effPc, effStart, effSchema, effAcc,
          effDepth, effResult, timeLog, sizeCall, convCall>>

checkVars == <<splittings, splittings0, pc, pass, idx, hold, modifiedSplittings,
               eventsPerLumi, inputEventsPerLumi, maxEventsPerLumi, smallLumi, schema,
               result, error>>

effVars == <<effPc, effStart, effSchema, effAcc, effDepth, effResult>>

calcVars == <<effVars, timeLog, sizeCall, convCall>>

-----------------------------------------------------------------------------
(* Bounds of the model *)

\* most tasks of a chain given to checkSplitting
MaxTasks == 2

\* most checkSplitting calls made on one splitting list
MaxPasses == 2

\* most _getTaskMaxEventsByTime calls kept in timeLog
MaxTimeCalls == 2

\* most tasks of a chain given to the calculators alone
MaxChain == 3

\* the depth at which the interpreter ends a recursion with RecursionError
RecursionLimit == 6

-----------------------------------------------------------------------------
(* Exact rationals *)

None == <<>>

RECURSIVE GCD(_, _)
GCD(a, b) == IF b = 0 THEN a ELSE GCD(b, a % b)

Abs(n) == IF n < 0 THEN -n ELSE n

Norm(n, d) ==
    LET g == GCD(Abs(n), d) IN <<n \div g, d \div g>>

R(n) == <<n, 1>>

RMul(a, b) == Norm(a[1] * b[1], a[2] * b[2])

\* a / b for b > 0
RDiv(a, b) == Norm(a[1] * b[2], a[2] * b[1])

RLt(a, b) == a[1] * b[2] < b[1] * a[2]

RLe(a, b) == a[1] * b[2] <= b[1] * a[2]

RMin2(a, b) == IF RLt(b, a) THEN b ELSE a

\* min() of a non-empty list
RMin(s) == CHOOSE m \in {s[k] : k \in DOMAIN s} : \A k \in DOMAIN s : RLe(m, s[k])

\* int() of a non-negative number
RInt(a) == <<a[1] \div a[2], 1>>

\* Python truth of a number or None
Truthy(x) == x # None /\ x[1] # 0

\* a or b
Or2(a, b) == IF Truthy(a) THEN a ELSE b

\* dict.get(key, default) of a field
Get(x, default) == IF x = None THEN default ELSE x

Range(s) == {s[k] : k \in DOMAIN s}

-----------------------------------------------------------------------------
(* Chain schema and its accessor *)

\* {}: the mapping _getTaskSchema returns when no task has the name
EmptySchema ==
    [TaskName |-> None, InputTask |-> None, InputDataset |-> None,
     TimePerEvent |-> None, SizePerEvent |-> None, FilterEfficiency |-> None,
     events_per_job |-> None]

\* A handle on a schema dict: ref = 0 for a fresh object, k for the object
\* stored at wfSchema[k]; d is what the dict holds.
Fresh(d) == [ref |-> 0, d |-> d]

\* a variant of _getTaskSchema that returns the stored dict itself, no deepcopy
getTaskSchemaAliased(wf, task) ==
    IF \E k \in DOMAIN wf : wf[k].TaskName = task
    THEN LET k == CHOOSE j \in DOMAIN wf :
                    /\ wf[j].TaskName = task
                    /\ \A m \in DOMAIN wf : wf[m].TaskName = task => j <= m
         IN  [ref |-> k, d |-> wf[k]]
    ELSE Fresh(EmptySchema)

\* _getTaskSchema: a deep copy of the first task named task, else {}
getTaskSchema(wf, task) ==
    IF \E k \in DOMAIN wf : wf[k].TaskName = task
    THEN LET k == CHOOSE j \in DOMAIN wf :
                    /\ wf[j].TaskName = task
                    /\ \A m \in DOMAIN wf : wf[m].TaskName = task => j <= m
         IN  Fresh(wf[k])
    ELSE Fresh(EmptySchema)

\* schema["SizePerEvent"] *= factor, seen from the chain schema: a write through
\* a handle on a stored dict changes the stored dict
WriteThrough(wf, h, v) ==
    IF h.ref = 0 THEN wf ELSE [wf EXCEPT ![h.ref].SizePerEvent = v]

-----------------------------------------------------------------------------
(* Efficiency propagator *)

\* a variant of the invocation that stops at a task naming itself as its input
EfficiencyStepGuarded(wf, d, acc) ==
    IF d.InputTask # None /\ d.InputTask # d.TaskName
    THEN LET dataset == getTaskSchema(wf, d.InputTask).d
         IN  [recurse |-> TRUE, schema |-> dataset,
              acc |-> RMul(acc, Get(dataset.FilterEfficiency, R(1)))]
    ELSE [recurse |-> FALSE, schema |-> d, acc |-> acc]

\* a variant of the invocation that multiplies by the schema's own
\* FilterEfficiency instead of the resolved task's
EfficiencyStepOwn(wf, d, acc) ==
    IF d.InputTask # None
    THEN [recurse |-> TRUE, schema |-> getTaskSchema(wf, d.InputTask).d,
          acc |-> RMul(acc, Get(d.FilterEfficiency, R(1)))]
    ELSE [recurse |-> FALSE, schema |-> d, acc |-> acc]

\* one invocation of _getTaskEfficiencyFactor: the arguments of the recursive
\* call it makes, or its return value
EfficiencyStep(wf, d, acc) ==
    IF d.InputTask # None
    THEN LET dataset == getTaskSchema(wf, d.InputTask).d
         IN  [recurse |-> TRUE, schema |-> dataset,
              acc |-> RMul(acc, Get(dataset.FilterEfficiency, R(1)))]
    ELSE [recurse |-> FALSE, schema |-> d, acc |-> acc]

RECURSIVE getTaskEfficiencyFactor(_, _, _)
getTaskEfficiencyFactor(wf, d, acc) ==
    LET s == EfficiencyStep(wf, d, acc)
    IN  IF s.recurse THEN getTaskEfficiencyFactor(wf, s.schema, s.acc) ELSE s.acc

-----------------------------------------------------------------------------
(* Per-task bound calculator *)

\* timeoutHours
TimeoutHours == 45

\* targetHours
TargetHours == 8

SecondsPerHour == 3600

\* 1024.0 ** 2.0
BinaryFactor == 1024 * 1024

\* a variant of the time bound that aims at the ceiling instead of the target
TimeBoundCeiling(efficiencyFactor, effEventsPerLumi, timePerEvent) ==
    IF RLt(R(TimeoutHours * SecondsPerHour), RMul(effEventsPerLumi, timePerEvent))
    THEN RDiv(RDiv(R(TimeoutHours * SecondsPerHour), timePerEvent), efficiencyFactor)
    ELSE None

\* a variant of the time bound without the division by the efficiency factor
TimeBoundNoRescale(efficiencyFactor, effEventsPerLumi, timePerEvent) ==
    IF RLt(R(TimeoutHours * SecondsPerHour), RMul(effEventsPerLumi, timePerEvent))
    THEN RDiv(R(TargetHours * SecondsPerHour), timePerEvent)
    ELSE None

\* a variant of the time bound that multiplies the target by TimePerEvent
TimeBoundTimes(efficiencyFactor, effEventsPerLumi, timePerEvent) ==
    IF RLt(R(TimeoutHours * SecondsPerHour), RMul(effEventsPerLumi, timePerEvent))
    THEN RDiv(RMul(R(TargetHours * SecondsPerHour), timePerEvent), efficiencyFactor)
    ELSE None

\* lines 133-147 of the time bound, on the values the function has computed
TimeBound(efficiencyFactor, effEventsPerLumi, timePerEvent) ==
    IF RLt(R(TimeoutHours * SecondsPerHour), RMul(effEventsPerLumi, timePerEvent))
    THEN RDiv(RDiv(R(TargetHours * SecondsPerHour), timePerEvent), efficiencyFactor)
    ELSE None

\* lines 129-131: the efficiency factor scales the base events per lumi
TimeBoundOf(efficiencyFactor, d, epl) ==
    TimeBound(efficiencyFactor, RMul(epl, efficiencyFactor), Get(d.TimePerEvent, R(0)))

\* _getTaskMaxEventsByTime
getTaskMaxEventsByTime(wf, d, epl) ==
    TimeBoundOf(getTaskEfficiencyFactor(wf, d, R(1)), d, epl)

\* a variant of the decision that evaluates the per-job check first
SizeDecisionJobFirst(gbSpaceLimit, efficiencyFactor, size, outputSize, maxLumiEvents) ==
    IF RLt(gbSpaceLimit, outputSize)
    THEN [byLumi |-> RDiv(maxLumiEvents, efficiencyFactor), byJob |-> maxLumiEvents]
    ELSE IF RLt(gbSpaceLimit, size)
    THEN [byLumi |-> RDiv(maxLumiEvents, efficiencyFactor), byJob |-> None]
    ELSE [byLumi |-> None, byJob |-> None]

\* lines 173-191 of the size bound, on the values the function has computed
SizeDecision(gbSpaceLimit, efficiencyFactor, size, outputSize, maxLumiEvents) ==
    IF RLt(gbSpaceLimit, size)
    THEN [byLumi |-> RDiv(maxLumiEvents, efficiencyFactor), byJob |-> None]
    ELSE IF RLt(gbSpaceLimit, outputSize)
    THEN [byLumi |-> RDiv(maxLumiEvents, efficiencyFactor), byJob |-> maxLumiEvents]
    ELSE [byLumi |-> None, byJob |-> None]

\* lines 169-178: maxEventsPerLumi, size and outputSize
SizeBound(gbSpaceLimit, efficiencyFactor, sizePerEvent, effEventsPerLumi, eventsPerJob) ==
    SizeDecision(gbSpaceLimit, efficiencyFactor,
                 RDiv(RMul(effEventsPerLumi, sizePerEvent), R(BinaryFactor)),
                 RDiv(RMul(eventsPerJob, sizePerEvent), R(BinaryFactor)),
                 RInt(RDiv(gbSpaceLimit, sizePerEvent)))

\* lines 164-169: the effective size per event and events per lumi
SizeBoundOf(gbSpaceLimit, efficiencyFactor, d, epl) ==
    SizeBound(gbSpaceLimit, efficiencyFactor,
              RMul(d.SizePerEvent,
                   RMul(efficiencyFactor, Get(d.FilterEfficiency, R(1)))),
              RMul(epl, efficiencyFactor),
              Get(d.events_per_job, R(0)))

\* _getTaskMaxEventsBySize: None, or the pair (bound, cap)
getTaskMaxEventsBySize(wf, gbSpaceLimit, d, epl) ==
    IF ~Truthy(Get(d.SizePerEvent, R(0))) THEN None
    ELSE SizeBoundOf(gbSpaceLimit, getTaskEfficiencyFactor(wf, d, R(1)), d, epl)

\* [*filter(None, [byTime, bySize])]
FilterNone(s) == SelectSeq(s, Truthy)

\* line 117: the unpacking of the size result and the filtered list
PerLumiAndJob(byTime, bySize) ==
    IF bySize = None
    THEN [raised |-> TRUE, bounds |-> <<>>, job |-> None]
    ELSE [raised |-> FALSE, bounds |-> FilterNone(<<byTime, bySize.byLumi>>),
          job |-> bySize.byJob]

\* _getTaskMaxEventsPerLumiAndJob; raised is the TypeError of unpacking None
getTaskMaxEventsPerLumiAndJob(wf, gbSpaceLimit, d, epl) ==
    PerLumiAndJob(getTaskMaxEventsByTime(wf, d, epl),
                  getTaskMaxEventsBySize(wf, gbSpaceLimit, d, epl))

\* _getOutputSizeCorrectionFactor: the table is a list of (keyword, factor) in
\* dict order; a keyword is given by the task names it is a substring of
getOutputSizeCorrectionFactor(table, task) ==
    IF \E k \in DOMAIN table : task \in table[k].matches
    THEN LET k == CHOOSE j \in DOMAIN table :
                    /\ task \in table[j].matches
                    /\ \A m \in DOMAIN table : task \in table[m].matches => j <= m
         IN  table[k].factor
    ELSE R(1)

\* _isBelowMinEventsPerLumi
isBelowMinEventsPerLumi(minEventsPerLumi, epl) == RLt(epl, minEventsPerLumi)

-----------------------------------------------------------------------------
(* Collaborators of the validator *)

\* getIO()'s primaries: the input datasets the chain's tasks declare
getIOPrimaries(wf) == {wf[k].InputDataset : k \in DOMAIN wf} \ {None}

\* dict.get(key) of a task schema: the value stored under the key, None for a
\* key the schema does not hold
SchemaGet(d, key) == IF key[1] \in DOMAIN d THEN d[key[1]] ELSE None

\* dbsReader.getDatasetEventsPerLumi: the observed events per lumi of the
\* dataset it is asked for, nothing when it is asked for None
getDatasetEventsPerLumi(answer, dataset) == IF dataset = None THEN None ELSE answer

\* the lookups of one loop iteration that can fail, in the order they are made
Lookups == {"output_size_correction", "dataset", "GB_space_limit",
            "min_events_per_lumi_output"}

-----------------------------------------------------------------------------
(* Chain splitting validator: the decisions of checkSplitting *)

Last(s) == s[Len(s)]

\* params.get("events_per_lumi") or inputEventsPerLumi or eventsPerLumi
BaseEventsPerLumi(params, input, carried) ==
    Or2(Or2(params.events_per_lumi, input), carried)

\* not eventsPerLumi or "events_per_job" not in params
Skipped(epl, params) == ~Truthy(epl) \/ params.events_per_job = None

\* a variant of the guard that does not look at smallLumi
UnderFillCheckedAlways(small, primaries, isRelVal) ==
    primaries = {} /\ ~isRelVal

\* not smallLumi and not primaries and not self.isRelVal()
UnderFillChecked(small, primaries, isRelVal) ==
    ~small /\ primaries = {} /\ ~isRelVal

\* a variant of the effective events per lumi that leaves the bounds out
EffEventsPerLumiBase(epl, bounds, d) == RMul(epl, Get(d.FilterEfficiency, R(1)))

\* min(eventsPerLumi, min(maxEventsPerLumi, default=eventsPerLumi)) * FilterEfficiency
EffEventsPerLumi(epl, bounds, d) ==
    LET m == IF bounds = <<>> THEN epl ELSE RMin(bounds)
    IN  RMul(RMin2(epl, m), Get(d.FilterEfficiency, R(1)))

\* hold |= smallLumi
UnderFillHold(h, small) == h \/ small

\* maxEventsPerLumi and inputEventsPerLumi and min(maxEventsPerLumi) < inputEventsPerLumi
InputExceedsBound(bounds, input) ==
    bounds # <<>> /\ Truthy(input) /\ RLt(RMin(bounds), input)

\* a variant of the post-loop hold that stores the branch condition
PostLoopHoldAssign(h, bounds, input) == InputExceedsBound(bounds, input)

\* the post-loop hold: hold = True in the first branch, untouched otherwise
PostLoopHold(h, bounds, input) == IF InputExceedsBound(bounds, input) THEN TRUE ELSE h

\* the elif branch: the root entry's events_per_lumi is rewritten
RootRewritten(bounds, input, root) ==
    /\ bounds # <<>>
    /\ ~InputExceedsBound(bounds, input)
    /\ ~Truthy(input)
    /\ Truthy(root.splitParams.events_per_lumi)
    /\ RLt(RMin(bounds), root.splitParams.events_per_lumi)

\* a variant of the rewritten value: the last bound instead of the least one
RootEventsPerLumiLast(bounds) == bounds[Len(bounds)]

\* min(maxEventsPerLumi), the value written into the root entry
RootEventsPerLumi(bounds) == RMin(bounds)

\* modifiedSplittings.append(splitting)
AppendModified(modified, k) == Append(modified, k)

-----------------------------------------------------------------------------
(* Inputs *)

\* a string is a one-element tuple, so that it compares with None
Str(s) == <<s>>

TaskNameOf == <<Str("GenSim"), Str("Digi"), Str("Reco"), Str("Mini")>>

TimeValues == {R(1), R(10)}

SizeValues == {R(0), R(8), R(300)}

FilterValues == {R(1), <<1, 2>>}

SchemaJobValues == {None, R(2000000)}

LumiValues == {None, R(100), R(40000)}

JobValues == {R(1000)}

DatasetValues == {None, Str("/Primary/Era-v1/RAW")}

ObservedValues == {None, R(100), R(40000)}

\* task k of a chain: it reads the output of task k - 1. The first two tasks
\* take every value, an events_per_job of the schema the first only; a deeper
\* task is one fixed slow, filtering step
TaskSchemas(k) ==
    {[TaskName |-> TaskNameOf[k],
      InputTask |-> IF k = 1 THEN None ELSE TaskNameOf[k - 1],
      InputDataset |-> ds, TimePerEvent |-> t, SizePerEvent |-> sz,
      FilterEfficiency |-> f, events_per_job |-> j] :
        ds \in (IF k = 1 THEN DatasetValues ELSE {None}),
        t \in (IF k <= 2 THEN TimeValues ELSE {R(10)}),
        sz \in (IF k <= 2 THEN SizeValues ELSE {R(8)}),
        f \in (IF k <= 2 THEN FilterValues ELSE {<<1, 2>>}),
        j \in (IF k = 1 THEN SchemaJobValues ELSE {None})}

\* events_per_job and events_per_lumi of the entry of task k. The root entry
\* takes every events_per_lumi, and with the small one also a large
\* events_per_job; the second entry takes no events_per_lumi or the large one,
\* or neither events_per_lumi nor events_per_job; a deeper entry takes no
\* events_per_lumi
EntryParams(k) ==
    {<<j, l>> : j \in JobValues,
                l \in (IF k = 1 THEN LumiValues
                       ELSE IF k = 2 THEN LumiValues \ {R(100)} ELSE {None})}
        \cup (IF k = 1 THEN {<<R(2000000), R(100)>>}
              ELSE IF k = 2 THEN {<<None, None>>} ELSE {})

\* the splitting entry of task k; taskName is the path /wf/Task1/.../Taskk
SplittingEntries(k) ==
    {[taskName |-> <<Str("wf")>> \o SubSeq(TaskNameOf, 1, k),
      splitAlgo |-> "EventBased",
      splitParams |-> [events_per_job |-> p[1], events_per_lumi |-> p[2],
                       job_time_limit |-> R(172800)]] :
        p \in EntryParams(k)}

\* an entry of the list that belongs to no task of the chain (a merge task)
ForeignEntry(k) ==
    [taskName |-> <<Str("wf")>> \o SubSeq(TaskNameOf, 1, k) \o <<Str("MergeOutput")>>,
     splitAlgo |-> "ParentlessMergeBySize",
     splitParams |-> [events_per_job |-> None, events_per_lumi |-> None,
                      job_time_limit |-> None]]

RECURSIVE Chains(_)
Chains(n) ==
    IF n = 0 THEN {<<>>}
    ELSE {Append(w, t) : w \in Chains(n - 1), t \in TaskSchemas(n)}

RECURSIVE TaskEntryLists(_)
TaskEntryLists(n) ==
    IF n = 0 THEN {<<>>}
    ELSE {Append(e, x) : e \in TaskEntryLists(n - 1), x \in SplittingEntries(n)}

\* the entries of the chain's tasks; the last one may be a foreign entry instead
EntryLists(n) ==
    {Append(e, x) : e \in TaskEntryLists(n - 1),
                    x \in SplittingEntries(n) \cup {ForeignEntry(n - 1)}}

Configuration ==
    [GB_space_limit |-> R(10),
     min_events_per_lumi_output |-> R(5000),
     output_size_correction |->
        <<[keyword |-> "Digi", matches |-> {Str("Digi")}, factor |-> R(2)]>>]

-----------------------------------------------------------------------------
(* checkSplitting as a state machine: one step per loop iteration *)

IdleLocals ==
    /\ idx = 0
    /\ hold = FALSE
    /\ modifiedSplittings = <<>>
    /\ eventsPerLumi = None
    /\ inputEventsPerLumi = None
    /\ maxEventsPerLumi = <<>>
    /\ smallLumi = FALSE
    /\ schema = Fresh(EmptySchema)
    /\ result = None
    /\ error = None

IdleCalculators ==
    /\ effPc = "idle"
    /\ effStart = EmptySchema
    /\ effSchema = EmptySchema
    /\ effAcc = R(1)
    /\ effDepth = 0
    /\ effResult = None
    /\ timeLog = <<>>
    /\ sizeCall = None
    /\ convCall = None

Init ==
    /\ \E n \in 1..MaxTasks :
         /\ wfSchema \in Chains(n)
         /\ splittings \in EntryLists(n)
    /\ wfSchema0 = wfSchema
    /\ relval \in BOOLEAN
    /\ dbs \in ObservedValues
    /\ getIOPrimaries(wfSchema) = {} => dbs = None
    /\ cfg = Configuration
    /\ splittings0 = splittings
    /\ pc = "idle"
    /\ pass = 0
    /\ IdleLocals
    /\ IdleCalculators

\* lines 304-309: the call begins, on the list as the previous call left it
Call ==
    /\ pc = "idle" \/ (pc = "done" /\ ~result.hold)
    /\ pass < MaxPasses
    /\ pass' = pass + 1
    /\ pc' = "loop"
    /\ idx' = 1
    /\ hold' = FALSE
    /\ modifiedSplittings' = <<>>
    /\ eventsPerLumi' = None
    /\ inputEventsPerLumi' = None
    /\ maxEventsPerLumi' = <<>>
    /\ smallLumi' = FALSE
    /\ splittings0' = splittings
    /\ result' = None
    /\ error' = None
    /\ UNCHANGED <<wfSchema, wfSchema0, relval, dbs, cfg, splittings, schema>>
    /\ UNCHANGED calcVars

\* the locals and the shared objects as an iteration finds them
Locals ==
    [raised |-> None, schema |-> schema, wf |-> wfSchema,
     input |-> inputEventsPerLumi, epl |-> eventsPerLumi,
     bounds |-> maxEventsPerLumi, entries |-> splittings,
     modified |-> modifiedSplittings, small |-> smallLumi, hold |-> hold]

\* an exception leaves the loop; what is raised is kept for the except clause
Raised(s, exception) == [s EXCEPT !.raised = Str(exception)]

\* line 336
IterHold(s, small) == [s EXCEPT !.small = small, !.hold = UnderFillHold(s.hold, small)]

\* lines 332-335: the under-fill check
IterUnderFill(fail, s) ==
    IF ~UnderFillChecked(s.small, getIOPrimaries(s.wf), relval) THEN s
    ELSE IF fail = "min_events_per_lumi_output" THEN Raised(s, "LookupError")
    ELSE IterHold(s, isBelowMinEventsPerLumi(cfg.min_events_per_lumi_output,
                                             EffEventsPerLumi(s.epl, s.bounds, s.schema.d)))

\* lines 328-330: the capped events per job is written into the entry
IterWrite(s, job) ==
    IF Truthy(job)
    THEN [s EXCEPT !.entries[idx].splitParams.events_per_job = job,
                   !.modified = AppendModified(s.modified, idx)]
    ELSE s

\* lines 326-327
IterApply(fail, s, calc) ==
    IF calc.raised THEN Raised(s, "TypeError")
    ELSE IterUnderFill(fail, IterWrite([s EXCEPT !.bounds = s.bounds \o calc.bounds],
                                       calc.job))

\* lines 323-326
IterBind(fail, params, s) ==
    IF Skipped(s.epl, params) THEN s
    ELSE IF fail = "GB_space_limit" THEN Raised(s, "LookupError")
    ELSE IterApply(fail, s,
                   getTaskMaxEventsPerLumiAndJob(s.wf, cfg.GB_space_limit,
                                                 s.schema.d, s.epl))

\* line 322
IterBase(fail, params, s) ==
    IterBind(fail, params,
             [s EXCEPT !.epl = BaseEventsPerLumi(params, s.input, s.epl)])

\* lines 318-320
IterLookup(fail, params, s) ==
    IF s.schema.d.InputDataset = None THEN IterBase(fail, params, s)
    ELSE IF fail = "dataset" THEN Raised(s, "LookupError")
    ELSE IterBase(fail, params,
                  [s EXCEPT !.input =
                      getDatasetEventsPerLumi(dbs, SchemaGet(s.schema.d,
                                                             s.schema.d.InputDataset))])

\* line 316, the store: schema["SizePerEvent"] = newSize
IterScale(fail, params, h0, newSize) ==
    IterLookup(fail, params,
               [Locals EXCEPT !.schema = [h0 EXCEPT !.d.SizePerEvent = newSize],
                              !.wf = WriteThrough(wfSchema, h0, newSize)])

\* line 316: a schema without SizePerEvent raises KeyError
IterCorrect(fail, params, task, h0) ==
    IF h0.d.SizePerEvent = None THEN Raised([Locals EXCEPT !.schema = h0], "KeyError")
    ELSE IF fail = "output_size_correction"
    THEN Raised([Locals EXCEPT !.schema = h0], "LookupError")
    ELSE IterScale(fail, params, h0,
                   RMul(h0.d.SizePerEvent,
                        getOutputSizeCorrectionFactor(cfg.output_size_correction, task)))

\* lines 312-336 for the entry at idx, with the lookup named fail failing if
\* it is made: the values of the locals and of the shared objects when the
\* iteration ends or raises
Iteration(fail) ==
    IterCorrect(fail, splittings[idx].splitParams, Last(splittings[idx].taskName),
                getTaskSchema(wfSchema, Last(splittings[idx].taskName)))

\* the iteration's effect on the state
LoopAssign(o) ==
    /\ schema' = o.schema
    /\ wfSchema' = o.wf
    /\ inputEventsPerLumi' = o.input
    /\ eventsPerLumi' = o.epl
    /\ maxEventsPerLumi' = o.bounds
    /\ splittings' = o.entries
    /\ modifiedSplittings' = o.modified
    /\ smallLumi' = o.small
    /\ hold' = o.hold
    /\ error' = o.raised
    /\ pc' = IF o.raised # None THEN "failed" ELSE "loop"
    /\ idx' = IF o.raised # None THEN idx ELSE idx + 1

\* one iteration of the for loop; an exception ends the call in the except
\* clause (lines 353-355), which returns nothing
LoopIteration ==
    /\ pc = "loop"
    /\ idx <= Len(splittings)
    /\ \E fail \in Lookups \cup {"none"} : LoopAssign(Iteration(fail))
    /\ result' = None
    /\ UNCHANGED <<wfSchema0, relval, dbs, cfg, splittings0, pass>>
    /\ UNCHANGED calcVars

\* lines 344-351: the rewrite of the root entry, and the return
PostLoopAssign(rewrite, newHold) ==
    /\ hold' = newHold
    /\ splittings' =
         IF rewrite
         THEN [splittings EXCEPT ![1].splitParams.events_per_lumi =
                                     RootEventsPerLumi(maxEventsPerLumi)]
         ELSE splittings
    /\ modifiedSplittings' =
         IF rewrite THEN Append(modifiedSplittings, 1) ELSE modifiedSplittings
    /\ result' = [hold |-> newHold,
                  modified |-> IF rewrite THEN Append(modifiedSplittings, 1)
                               ELSE modifiedSplittings]

\* lines 338-351: the post-loop step and the return
PostLoop ==
    /\ pc = "loop"
    /\ idx > Len(splittings)
    /\ PostLoopAssign(RootRewritten(maxEventsPerLumi, inputEventsPerLumi, splittings[1]),
                      PostLoopHold(hold, maxEventsPerLumi, inputEventsPerLumi))
    /\ pc' = "done"
    /\ UNCHANGED <<wfSchema, wfSchema0, relval, dbs, cfg, splittings0, pass, idx,
                   eventsPerLumi, inputEventsPerLumi, maxEventsPerLumi, smallLumi,
                   schema, error>>
    /\ UNCHANGED calcVars

Next == Call \/ LoopIteration \/ PostLoop

Spec == Init /\ [][Next]_vars

-----------------------------------------------------------------------------
(* The calculators called on their own *)

ExternalDataset == Str("/External/Era-v1/GEN")

CalcFilterValues == {None, <<1, 2>>, <<2, 5>>}

CalcTimeValues == {None, R(1), R(5), R(10)}

CalcLumiValues == {R(32400), R(40000)}

\* task k of a chain: it reads nothing, an external dataset or an earlier task; a
\* task deeper than the third reads an earlier task and filters at 0.5
CalcTaskSchemas(k) ==
    {[EmptySchema EXCEPT !.TaskName = TaskNameOf[k], !.InputTask = in,
                         !.FilterEfficiency = f] :
        in \in (IF k <= 3 THEN {None, ExternalDataset} ELSE {})
                   \cup {TaskNameOf[j] : j \in 1..(k - 1)},
        f \in (IF k <= 3 THEN CalcFilterValues ELSE {<<1, 2>>})}

RECURSIVE CalcChains(_)
CalcChains(n) ==
    IF n = 0 THEN {<<>>}
    ELSE {Append(w, t) : w \in CalcChains(n - 1), t \in CalcTaskSchemas(n)}

\* the schemas handed to _getTaskMaxEventsByTime
CalcTimeSchemas(wf) ==
    {[EmptySchema EXCEPT !.InputTask = in, !.TimePerEvent = t] :
        in \in {None} \cup {wf[k].TaskName : k \in DOMAIN wf}, t \in CalcTimeValues}

InitCalc ==
    /\ wfSchema \in CalcChains(MaxChain)
    /\ wfSchema0 = wfSchema
    /\ relval = FALSE
    /\ dbs = None
    /\ cfg = Configuration
    /\ splittings = <<>>
    /\ splittings0 = <<>>
    /\ pc = "idle"
    /\ pass = 0
    /\ IdleLocals
    /\ IdleCalculators

\* _getTaskEfficiencyFactor(schema) is called on a task's schema
EfficiencyCall ==
    /\ effPc = "idle"
    /\ timeLog = <<>>
    /\ \E k \in DOMAIN wfSchema :
         /\ effStart' = getTaskSchema(wfSchema, wfSchema[k].TaskName).d
         /\ effSchema' = getTaskSchema(wfSchema, wfSchema[k].TaskName).d
    /\ effAcc' = R(1)
    /\ effDepth' = 0
    /\ effPc' = "running"
    /\ UNCHANGED <<effResult, timeLog, sizeCall, convCall, wfSchema, wfSchema0, relval, dbs, cfg,
                   checkVars>>

\* lines 90-93: the invocation resolves InputTask and calls itself
EfficiencyRecurse ==
    /\ effPc = "running"
    /\ effDepth < RecursionLimit
    /\ EfficiencyStep(wfSchema, effSchema, effAcc).recurse
    /\ effSchema' = EfficiencyStep(wfSchema, effSchema, effAcc).schema
    /\ effAcc' = EfficiencyStep(wfSchema, effSchema, effAcc).acc
    /\ effDepth' = effDepth + 1
    /\ UNCHANGED <<effPc, effStart, effResult, timeLog, sizeCall, convCall, wfSchema, wfSchema0,
                   relval, dbs, cfg, checkVars>>

\* line 95: the terminal invocation returns, and so do its callers
EfficiencyReturn ==
    /\ effPc = "running"
    /\ ~EfficiencyStep(wfSchema, effSchema, effAcc).recurse
    /\ effResult' = EfficiencyStep(wfSchema, effSchema, effAcc).acc
    /\ effPc' = "returned"
    /\ UNCHANGED <<effStart, effSchema, effAcc, effDepth, timeLog, sizeCall, convCall, wfSchema,
                   wfSchema0, relval, dbs, cfg, checkVars>>

\* the record of one _getTaskMaxEventsByTime call
TimeCallRecord(d, epl) ==
    [schema |-> d, epl |-> epl,
     efficiency |-> getTaskEfficiencyFactor(wfSchema, d, R(1)),
     bound |-> getTaskMaxEventsByTime(wfSchema, d, epl)]

\* _getTaskMaxEventsByTime(schema, eventsPerLumi) is called; a later call is
\* made for the same task and base, with a larger TimePerEvent
TimeCall ==
    /\ effPc = "idle"
    /\ Len(timeLog) < MaxTimeCalls
    /\ \E d \in CalcTimeSchemas(wfSchema), epl \in CalcLumiValues :
         /\ timeLog # <<>> =>
              /\ d.InputTask = timeLog[1].schema.InputTask
              /\ epl = timeLog[1].epl
              /\ RLt(Get(Last(timeLog).schema.TimePerEvent, R(0)),
                     Get(d.TimePerEvent, R(0)))
         /\ timeLog' = Append(timeLog, TimeCallRecord(d, epl))
    /\ UNCHANGED <<effVars, sizeCall, convCall, wfSchema, wfSchema0, relval, dbs, cfg,
                   checkVars>>

NextCalc == EfficiencyCall \/ EfficiencyRecurse \/ EfficiencyReturn \/ TimeCall

SpecCalc == InitCalc /\ [][NextCalc]_vars

-----------------------------------------------------------------------------
(* The efficiency propagator on chains of any shape *)

\* task k of a chain whose InputTask may name any task of the chain: an earlier
\* one, the task itself or a later one
RecTaskSchemas(k, n) ==
    {[EmptySchema EXCEPT !.TaskName = TaskNameOf[k], !.InputTask = in,
                         !.FilterEfficiency = <<1, 2>>] :
        in \in {None} \cup {TaskNameOf[j] : j \in 1..n}}

RECURSIVE RecChainsOf(_, _)
RecChainsOf(k, n) ==
    IF k = 0 THEN {<<>>}
    ELSE {Append(w, t) : w \in RecChainsOf(k - 1, n), t \in RecTaskSchemas(k, n)}

RecChains == RecChainsOf(MaxChain, MaxChain)

InitRec ==
    /\ wfSchema \in RecChains
    /\ wfSchema0 = wfSchema
    /\ relval = FALSE
    /\ dbs = None
    /\ cfg = Configuration
    /\ splittings = <<>>
    /\ splittings0 = <<>>
    /\ pc = "idle"
    /\ pass = 0
    /\ IdleLocals
    /\ IdleCalculators

\* lines 90-93 at the interpreter's limit: the next call raises RecursionError
EfficiencyOverflow ==
    /\ effPc = "running"
    /\ effDepth = RecursionLimit
    /\ EfficiencyStep(wfSchema, effSchema, effAcc).recurse
    /\ effPc' = "overflow"
    /\ UNCHANGED <<effStart, effSchema, effAcc, effDepth, effResult, timeLog, sizeCall,
                   convCall, wfSchema, wfSchema0, relval, dbs, cfg, checkVars>>

NextRec == EfficiencyCall \/ EfficiencyRecurse \/ EfficiencyReturn \/ EfficiencyOverflow

SpecRec == InitRec /\ [][NextRec]_vars

-----------------------------------------------------------------------------
(* The size calculator called on its own *)

SizeCallSizes == {None, R(0), R(2), R(300)}

SizeCallJobValues == {None, R(2000000), R(6000000)}

SizeCallLumiValues == {R(100), R(40000), R(6000000)}

\* the schemas handed to _getTaskMaxEventsBySize
SizeCallSchemas(wf) ==
    {[EmptySchema EXCEPT !.InputTask = in, !.SizePerEvent = sz,
                         !.FilterEfficiency = f, !.events_per_job = j] :
        in \in {None} \cup {wf[k].TaskName : k \in DOMAIN wf},
        sz \in SizeCallSizes, f \in {None, <<1, 2>>}, j \in SizeCallJobValues}

InitSize ==
    /\ wfSchema \in CalcChains(MaxTasks)
    /\ wfSchema0 = wfSchema
    /\ relval = FALSE
    /\ dbs = None
    /\ cfg = Configuration
    /\ splittings = <<>>
    /\ splittings0 = <<>>
    /\ pc = "idle"
    /\ pass = 0
    /\ IdleLocals
    /\ IdleCalculators

\* the record of one _getTaskMaxEventsBySize call: its arguments, the values
\* it computes on the way (lines 165-171) and what it returns
SizeCallRecord(d, epl) ==
    [schema |-> d, epl |-> epl, gbSpaceLimit |-> cfg.GB_space_limit,
     efficiency |-> getTaskEfficiencyFactor(wfSchema, d, R(1)),
     result |-> getTaskMaxEventsBySize(wfSchema, cfg.GB_space_limit, d, epl)]

\* _getTaskMaxEventsBySize(schema, eventsPerLumi) is called
SizeCall ==
    /\ sizeCall = None
    /\ \E d \in SizeCallSchemas(wfSchema), epl \in SizeCallLumiValues :
         sizeCall' = SizeCallRecord(d, epl)
    /\ UNCHANGED <<effVars, timeLog, convCall, wfSchema, wfSchema0, relval, dbs, cfg,
                   checkVars>>

NextSize == SizeCall

SpecSize == InitSize /\ [][NextSize]_vars

-----------------------------------------------------------------------------
(* isGoodToConvertToStepChain: the step-chain conversion policy *)

RAdd(a, b) == Norm(a[1] * b[2] + b[1] * a[2], a[2] * b[2])

\* a Python bool or None as a result value
PyBool(b) == IF b THEN "True" ELSE "False"

\* s[:n] of a string, a string being the sequence of its characters
Prefix(s, n) == SubSeq(s, 1, IF Len(s) < n THEN Len(s) ELSE n)

\* keyword in s
IsSubstring(keyword, s) ==
    \E i \in 1..(Len(s) - Len(keyword) + 1) : SubSeq(s, i, i + Len(keyword) - 1) = keyword

\* "".join(f"{k}{v}" for k, v in items), for the first n items
RECURSIVE JoinItems(_, _)
JoinItems(items, n) ==
    IF n = 0 THEN <<>> ELSE JoinItems(items, n - 1) \o items[n].k \o items[n].v

\* a task sub-schema as the conversion policy reads it
EmptyConvTask ==
    [TaskName |-> None, TimePerEvent |-> None, FilterEfficiency |-> None,
     Multicore |-> None, EventStreams |-> None]

\* _hasNonZeroEventStreams
hasNonZeroEventStreams(wf) ==
    \E k \in DOMAIN wf : Get(wf[k].EventStreams, R(0)) # R(0)

\* the exception one entry of _getTimeInfo raises, or None
TimeInfoErrorOf(task) ==
    IF task.TimePerEvent = None THEN Str("TypeError")
    ELSE IF Get(task.FilterEfficiency, R(1))[1] = 0 THEN Str("ZeroDivisionError")
    ELSE None

\* the exception _getTimeInfo raises: that of the first task that raises one
TimeInfoError(wf) ==
    IF \A k \in DOMAIN wf : TimeInfoErrorOf(wf[k]) = None THEN None
    ELSE TimeInfoErrorOf(wf[CHOOSE k \in DOMAIN wf :
                                /\ TimeInfoErrorOf(wf[k]) # None
                                /\ \A j \in 1..(k - 1) : TimeInfoErrorOf(wf[j]) = None])

\* _getTimeInfo, when it raises nothing
getTimeInfo(wf, chainCores) ==
    [k \in DOMAIN wf |->
        [timePerEvent |-> RDiv(wf[k].TimePerEvent, Get(wf[k].FilterEfficiency, R(1))),
         cores |-> Get(wf[k].Multicore, chainCores)]]

\* the exception _hasAcceptableEfficiency raises, or None
EfficiencyError(wf, chainCores) ==
    IF TimeInfoError(wf) # None THEN TimeInfoError(wf)
    ELSE IF \E k \in DOMAIN wf : Get(wf[k].Multicore, chainCores) = None THEN Str("TypeError")
    ELSE None

\* totalTimePerEvent after the first n tasks
RECURSIVE TotalTimePerEvent(_, _)
TotalTimePerEvent(time, n) ==
    IF n = 0 THEN R(0) ELSE RAdd(TotalTimePerEvent(time, n - 1), time[n].timePerEvent)

\* efficiency after the first n tasks, before the division
RECURSIVE WeightedTime(_, _, _)
WeightedTime(time, maxCores, n) ==
    IF n = 0 THEN R(0)
    ELSE RAdd(WeightedTime(time, maxCores, n - 1),
              RMul(time[n].timePerEvent, RMin2(time[n].cores, maxCores)))

\* efficiency /= totalTimePerEvent * maxCores
CpuEfficiency(time, maxCores) ==
    RDiv(WeightedTime(time, maxCores, Len(time)),
         RMul(TotalTimePerEvent(time, Len(time)), maxCores))

\* a variant of the comparison that accepts an efficiency equal to the threshold
MeetsThreshold(efficiency, threshold) == RLe(threshold, efficiency)

\* efficiency > threshold
ExceedsThreshold(efficiency, threshold) == RLt(threshold, efficiency)

\* _hasAcceptableEfficiency, when it raises nothing
hasAcceptableEfficiency(time, c) ==
    IF Truthy(TotalTimePerEvent(time, Len(time)))
    THEN ExceedsThreshold(CpuEfficiency(time, c.max_nCores_for_stepchain),
                          c.efficiency_threshold_for_stepchain)
    ELSE FALSE

\* self.get("TaskChain", 0) > 1
moreThanOneTask(chain) == RLt(R(1), Get(chain.TaskChain, R(0)))

\* x.split("/")[-1] of each output dataset, a dataset being the sequence of its segments
TiersOf(datasets) == [k \in DOMAIN datasets |-> Last(datasets[k])]

\* a variant that does not look at the tiers
allUniqueTiersUnchecked(tiers) == Len(tiers) = Len(tiers)

\* len(tiers) == len(set(tiers))
allUniqueTiers(tiers) == Len(tiers) = Cardinality(Range(tiers))

\* len(set(map(lambda x: x[:4], arches))) == 1
allSameArches(arches) == Cardinality({Prefix(arches[k], 4) : k \in DOMAIN arches}) = 1

\* self.getMulticore(maxOnly=False): the core count of each task
getMulticore(wf, chainCores) == [k \in DOMAIN wf |-> Get(wf[k].Multicore, chainCores)]

\* len(set(self.getMulticore(maxOnly=False))) == 1
allSameCores(cores) == Cardinality(Range(cores)) = 1

\* any(keyword in processingString + self.wf for keyword in keywords) if keywords else True
foundKeywords(keywords, processingString, wf) ==
    IF keywords = <<>> THEN TRUE
    ELSE \E k \in DOMAIN keywords : IsSubstring(keywords[k], processingString \o wf)

\* the conjuncts of the return expression that precede the efficiency call
BeforeEfficiency(chain) ==
    /\ moreThanOneTask(chain)
    /\ allUniqueTiers(TiersOf(chain.OutputDatasets))
    /\ allSameArches(chain.ScramArch)

\* the return expression, `and` and `or` evaluated left to right
ReturnExpression(wf, chain, keywords, c) ==
    /\ BeforeEfficiency(chain)
    /\ \/ allSameCores(getMulticore(wf, chain.Multicore))
       \/ hasAcceptableEfficiency(getTimeInfo(wf, chain.Multicore), c)
    /\ foundKeywords(keywords, JoinItems(chain.ProcessingString, Len(chain.ProcessingString)),
                     chain.wf)

\* the efficiency call is reached and raises
EfficiencyRaises(wf, chain) ==
    /\ BeforeEfficiency(chain)
    /\ ~allSameCores(getMulticore(wf, chain.Multicore))
    /\ EfficiencyError(wf, chain.Multicore) # None

\* isGoodToConvertToStepChain: what it returns and the exception it caught
isGoodToConvertToStepChain(wf, chain, keywords, c) ==
    IF hasNonZeroEventStreams(wf) THEN [result |-> "False", error |-> None]
    ELSE IF EfficiencyRaises(wf, chain)
         THEN [result |-> "None", error |-> EfficiencyError(wf, chain.Multicore)]
    ELSE [result |-> PyBool(ReturnExpression(wf, chain, keywords, c)), error |-> None]

\* the thresholds of the conversion policy
ConvConfiguration ==
    [max_nCores_for_stepchain |-> R(8), efficiency_threshold_for_stepchain |-> <<3, 4>>]

ConvTimeValues(k) == IF k = 1 THEN {None, R(0), R(1), R(10)} ELSE IF k = 2 THEN {R(0), R(1)} ELSE {R(1)}

ConvCoreValues(k) == IF k = 1 THEN {None, R(4), R(16)} ELSE IF k = 2 THEN {None, R(4)} ELSE {None}

ConvStreamValues(k) == IF k = 1 THEN {None, R(0), R(2)} ELSE {None}

\* task k of a chain
ConvTaskSchemas(k) ==
    {[EmptyConvTask EXCEPT !.TaskName = TaskNameOf[k], !.TimePerEvent = t,
                           !.FilterEfficiency = f, !.Multicore = c, !.EventStreams = es] :
        t \in ConvTimeValues(k), f \in (IF k = 1 THEN {None, <<1, 2>>} ELSE {None}),
        c \in ConvCoreValues(k), es \in ConvStreamValues(k)}

RECURSIVE ConvChainsOf(_)
ConvChainsOf(n) ==
    IF n = 0 THEN {<<>>}
    ELSE {Append(w, t) : w \in ConvChainsOf(n - 1), t \in ConvTaskSchemas(n)}

ConvChains == UNION {ConvChainsOf(n) : n \in 1..MaxTasks}

\* output dataset lists: distinct tiers, one tier twice, no output
ConvOutputDatasets ==
    {<< <<"", "Prim", "Era-v1", "GEN-SIM">>, <<"", "Prim", "Era-v2", "AODSIM">> >>,
     << <<"", "Prim", "Era-v1", "GEN-SIM">>, <<"", "Prim", "Era-v2", "GEN-SIM">> >>,
     <<>>}

\* architecture lists: one prefix, two prefixes
ConvScramArches ==
    {<< <<"s", "l", "c", "7", "_", "a">>, <<"s", "l", "c", "7", "_", "b">> >>,
     << <<"s", "l", "c", "7", "_", "a">>, <<"s", "l", "c", "6", "_", "a">> >>}

ConvProcessingString == <<[k |-> <<"T", "1">>, v |-> <<"G", "S">>]>>

ConvWorkflowName == <<"w", "f", "7">>

\* keyword lists: none, inside the tag, across a key and its value, inside the name,
\* nowhere, across the tag and the name
ConvKeywords ==
    {<<>>, << <<"G", "S">> >>, << <<"1", "G">> >>, << <<"Z">>, <<"f", "7">> >>,
     << <<"Z">> >>, << <<"S", "w">> >>}

\* what the accessors of the base class answer for the chain wf
ConvChainLevels(wf) ==
    {[TaskChain |-> R(Len(wf)), OutputDatasets |-> o, ScramArch |-> a, Multicore |-> R(8),
      ProcessingString |-> ConvProcessingString, wf |-> ConvWorkflowName] :
        o \in ConvOutputDatasets, a \in ConvScramArches}

InitConv ==
    /\ wfSchema \in ConvChains
    /\ wfSchema0 = wfSchema
    /\ relval = FALSE
    /\ dbs = None
    /\ cfg = ConvConfiguration
    /\ splittings = <<>>
    /\ splittings0 = <<>>
    /\ pc = "idle"
    /\ pass = 0
    /\ IdleLocals
    /\ IdleCalculators

ConvCallRecord(chain, keywords) ==
    [chain |-> chain, keywords |-> keywords,
     returned |-> isGoodToConvertToStepChain(wfSchema, chain, keywords, cfg)]

\* isGoodToConvertToStepChain(keywords) is called
ConvCall ==
    /\ convCall = None
    /\ \E chain \in ConvChainLevels(wfSchema), keywords \in ConvKeywords :
         convCall' = ConvCallRecord(chain, keywords)
    /\ UNCHANGED <<effVars, timeLog, sizeCall, wfSchema, wfSchema0, relval, dbs, cfg,
                   checkVars>>

NextConv == ConvCall

SpecConv == InitConv /\ [][NextConv]_vars

-----------------------------------------------------------------------------
(* Step chain: checkSplittingsSize *)

\* self.getMulticore() of a step chain: the request's core count
getMulticoreMax(wf) == wf.Multicore

\* lines 57-58: totalGbSpaceLimit
TotalGbSpaceLimit(wf, gbSpaceLimit) == RMul(getMulticoreMax(wf), gbSpaceLimit)

\* line 60: the size per event in GB
StepSizePerEvent(wf) == RDiv(Get(wf.SizePerEvent, R(0)), R(BinaryFactor))

\* line 67: size > totalGbSpaceLimit
StepExceeds(size, total) == RLt(total, size)

\* lines 64-65: the output size of the entry's job in GB
StepJobGB(e, sizePerEvent) == RMul(Get(e.splitParams.events_per_job, R(0)), sizePerEvent)

\* lines 62-70 for one entry: the entry as the iteration leaves it
StepChecked(e, sizePerEvent, total) ==
    IF StepExceeds(StepJobGB(e, sizePerEvent), total)
    THEN [e EXCEPT !.splitParams.events_per_job = RInt(RDiv(total, sizePerEvent))]
    ELSE e

\* line 70: the entries appended to modifiedSplittings, in list order
RECURSIVE StepModified(_, _, _, _)
StepModified(entries, sizePerEvent, total, n) ==
    IF n = 0 THEN <<>>
    ELSE IF StepExceeds(StepJobGB(entries[n], sizePerEvent), total)
    THEN Append(StepModified(entries, sizePerEvent, total, n - 1), n)
    ELSE StepModified(entries, sizePerEvent, total, n - 1)

\* lines 55-81 on the values of lines 57-60
StepLoop(entries, sizePerEvent, total) ==
    [entries |-> [k \in DOMAIN entries |-> StepChecked(entries[k], sizePerEvent, total)],
     returned |-> [hold |-> FALSE,
                   modified |-> StepModified(entries, sizePerEvent, total, Len(entries))]]

\* lines 83-85: the except clause logs the error and returns nothing; nothing
\* has been written when line 58 raises
StepFailed(entries, exception) ==
    [entries |-> entries, returned |-> None, raised |-> Str(exception)]

\* lines 55-81 when the lookups answer
StepReturned(o) == [entries |-> o.entries, returned |-> o.returned, raised |-> None]

\* checkSplittingsSize, with the lookup named fail failing: the entries after
\* the call, what it returns and what the except clause caught
checkSplittingsSize(fail, wf, config, entries) ==
    IF fail = "GB_space_limit" THEN StepFailed(entries, "LookupError")
    ELSE StepReturned(StepLoop(entries, StepSizePerEvent(wf),
                               TotalGbSpaceLimit(wf, config.GB_space_limit)))

\* the lookups of checkSplittingsSize that may fail
StepLookups == {"GB_space_limit"}

StepSizeValues == {None, R(0), R(8), R(300)}

StepCoreValues == {R(1), R(8)}

StepJobValues == {None, R(1000), R(1310720), R(2000000), R(6000000)}

\* the top-level fields of a step chain schema that the function reads
StepSchemas == {[SizePerEvent |-> s, Multicore |-> c] : s \in StepSizeValues, c \in StepCoreValues}

RECURSIVE StepEntryLists(_)
StepEntryLists(n) ==
    IF n = 0 THEN {<<>>}
    ELSE {Append(l, [taskName |-> <<Str("wf"), TaskNameOf[n]>>,
                     splitParams |-> [events_per_job |-> j]]) :
             l \in StepEntryLists(n - 1), j \in StepJobValues}

InitStep ==
    /\ wfSchema \in StepSchemas
    /\ wfSchema0 = wfSchema
    /\ relval = FALSE
    /\ dbs = None
    /\ cfg = Configuration
    /\ splittings \in UNION {StepEntryLists(n) : n \in 1..MaxTasks}
    /\ splittings0 = splittings
    /\ pc = "idle"
    /\ pass = 0
    /\ IdleLocals
    /\ IdleCalculators

\* the effect of one call on the state
StepAssign(o) ==
    /\ splittings' = o.entries
    /\ result' = o.returned
    /\ error' = o.raised
    /\ pc' = IF o.raised # None THEN "failed" ELSE "done"

\* checkSplittingsSize(splittings) is called on the caller's list, which it
\* changes in place; a failing lookup ends the call in the except clause
StepCall ==
    /\ pc \in {"idle", "done"}
    /\ pass < MaxPasses
    /\ pass' = pass + 1
    /\ splittings0' = splittings
    /\ \E fail \in StepLookups \cup {"none"} :
         StepAssign(checkSplittingsSize(fail, wfSchema, cfg, splittings))
    /\ UNCHANGED <<wfSchema, wfSchema0, relval, dbs, cfg, idx, hold, modifiedSplittings,
                   eventsPerLumi, inputEventsPerLumi, maxEventsPerLumi, smallLumi,
                   schema>>
    /\ UNCHANGED calcVars

NextStep == StepCall

SpecStep == InitStep /\ [][NextStep]_vars

-----------------------------------------------------------------------------
(* Properties of the chain splitting validator *)

Params(entries, k) == entries[k].splitParams

Returned == pc = "done"

\* some bound is below x, i.e. the least bound is
SomeBoundBelow(x) == \E k \in DOMAIN maxEventsPerLumi : RLt(maxEventsPerLumi[k], x)

\* C1: a second checkSplitting call on the list a call that did not hold left
\* behind returns hold = False and an empty modified list.
C1_Idempotent ==
    (Returned /\ pass = 2) => (~result.hold /\ result.modified = <<>>)

\* C2: once the under-fill check has set hold (smallLumi is True), hold stays
\* True at every later step of the pass and in the returned result.
C2_HoldSticky ==
    smallLumi => (hold /\ (Returned => result.hold))

\* a two-task pass has returned; under-fill was detected at the first task, the
\* second task on its own is fine and no bound is below the observed input
C2_Witness ==
    /\ Returned
    /\ Len(splittings) = 2
    /\ smallLumi
    /\ ~isBelowMinEventsPerLumi(cfg.min_events_per_lumi_output,
                                EffEventsPerLumi(eventsPerLumi, maxEventsPerLumi, schema.d))
    /\ ~(Truthy(inputEventsPerLumi) /\ SomeBoundBelow(inputEventsPerLumi))
    /\ result.hold

\* the events per lumi the metadata source has observed for the input dataset
\* declared by the task of entry k or, failing that, of an earlier entry
RECURSIVE ObservedInput(_)
ObservedInput(k) ==
    IF k = 0 THEN None
    ELSE LET d == getTaskSchema(wfSchema, Last(splittings0[k].taskName)).d
         IN  IF d.InputDataset # None
             THEN getDatasetEventsPerLumi(dbs, d.InputDataset)
             ELSE ObservedInput(k - 1)

\* C3: a returned pass that produced a bound below the observed events per lumi
\* of the input dataset holds the chain, and no entry's events_per_lumi was
\* rewritten.
C3_HoldOnTighterBound ==
    (Returned /\ Truthy(ObservedInput(Len(splittings0)))
              /\ SomeBoundBelow(ObservedInput(Len(splittings0))))
        => /\ result.hold
           /\ \A k \in DOMAIN splittings :
                Params(splittings, k).events_per_lumi = Params(splittings0, k).events_per_lumi

\* C4: without an observed input events per lumi, with a bound below the first
\* entry's configured events_per_lumi, that field becomes exactly the least
\* bound, the entry is in the modified list, and hold is what the loop left.
C4_RootRewrite ==
    (/\ Returned
     /\ ~Truthy(inputEventsPerLumi)
     /\ Truthy(Params(splittings0, 1).events_per_lumi)
     /\ SomeBoundBelow(Params(splittings0, 1).events_per_lumi))
        => /\ Params(splittings, 1).events_per_lumi \in Range(maxEventsPerLumi)
           /\ ~SomeBoundBelow(Params(splittings, 1).events_per_lumi)
           /\ 1 \in Range(result.modified)
           /\ result.hold = smallLumi

\* the root entry was rewritten to the least of two different bounds, the last
\* of which is not the least, and the chain is not held
C4_Witness ==
    /\ Returned
    /\ ~Truthy(inputEventsPerLumi)
    /\ Len(maxEventsPerLumi) >= 2
    /\ SomeBoundBelow(maxEventsPerLumi[Len(maxEventsPerLumi)])
    /\ Params(splittings, 1).events_per_lumi # Params(splittings0, 1).events_per_lumi
    /\ Params(splittings, 1).events_per_lumi = RMin(maxEventsPerLumi)
    /\ ~result.hold

\* the call is over and entry k is in no returned modified list: the call
\* returned a list without it, or it ended in the except clause and returned
\* nothing
Unreported(k) ==
    \/ pc = "failed"
    \/ Returned /\ k \notin Range(result.modified)

\* C5: the call changes nothing of an entry but splitParams.events_per_job and
\* splitParams.events_per_lumi, and an entry that is not in the returned
\* modified list is as it was before the call.
C5_Frame ==
    /\ Len(splittings) = Len(splittings0)
    /\ \A k \in DOMAIN splittings :
         /\ splittings[k].taskName = splittings0[k].taskName
         /\ splittings[k].splitAlgo = splittings0[k].splitAlgo
         /\ Params(splittings, k).job_time_limit = Params(splittings0, k).job_time_limit
         /\ Unreported(k) => splittings[k] = splittings0[k]

\* C6: when a configuration or dataset-metadata lookup fails, no result is
\* returned and every entry still has the events_per_job and events_per_lumi
\* it had before the call.
C6_NoPartialApplication ==
    (pc = "failed" /\ error = Str("LookupError"))
        => /\ result = None
           /\ \A k \in DOMAIN splittings :
                /\ Params(splittings, k).events_per_job = Params(splittings0, k).events_per_job
                /\ Params(splittings, k).events_per_lumi = Params(splittings0, k).events_per_lumi

\* the schema of the task named task, as the chain schema held it at construction
StoredSchemas(task) == {wfSchema0[k] : k \in {j \in DOMAIN wfSchema0 : wfSchema0[j].TaskName = task}}

\* C7: the chain schema is never changed; the schema the validator works on is
\* a fresh object that is empty when no task has the name, and otherwise the
\* stored schema with only SizePerEvent scaled by the correction factor.
C7_SchemaCopy ==
    /\ wfSchema = wfSchema0
    /\ schema.ref = 0
    /\ (pc \in {"loop", "done", "failed"} /\ idx >= 1 /\ schema.d # EmptySchema)
          => \E d \in StoredSchemas(schema.d.TaskName) :
                [schema.d EXCEPT !.SizePerEvent = d.SizePerEvent] = d
    /\ (pc = "failed" /\ schema.d = EmptySchema)
          => StoredSchemas(Last(splittings[idx].taskName)) = {}

\* the validator's copy of a task's schema holds a scaled SizePerEvent while the
\* chain schema still holds the original one
C7_Witness ==
    /\ Returned
    /\ schema.d.TaskName = Str("Digi")
    /\ \E k \in DOMAIN wfSchema :
         /\ wfSchema[k].TaskName = Str("Digi")
         /\ wfSchema[k].SizePerEvent = R(8)
         /\ schema.d.SizePerEvent = R(16)

-----------------------------------------------------------------------------
(* Properties of the calculators *)

\* the chain A -> B -> C: C is the base task, B filters at 0.5, A at 0.4
IsChainABC ==
    /\ Len(wfSchema) = 3
    /\ wfSchema[1].InputTask = None
    /\ wfSchema[2].InputTask = wfSchema[1].TaskName
    /\ wfSchema[2].FilterEfficiency = <<1, 2>>
    /\ wfSchema[3].InputTask = wfSchema[2].TaskName
    /\ wfSchema[3].FilterEfficiency = <<2, 5>>

\* C8 as stated: the cumulative efficiency computed for task A is 0.2.
C8_Original ==
    (effPc = "returned" /\ IsChainABC /\ effStart = wfSchema[3]) => effResult = <<1, 5>>

\* C8, amended: the cumulative efficiency computed for task A is the product
\* of the FilterEfficiency of the tasks above it, B's 0.5 and C's (1.0 when C
\* declares none); A's own 0.4 is not part of it.
C8_AncestorsOnly ==
    (effPc = "returned" /\ IsChainABC /\ effStart = wfSchema[3])
        => effResult = RMul(<<1, 2>>, Get(wfSchema[1].FilterEfficiency, R(1)))

\* the factor of A was computed in two recursive steps and is 0.5
C8_Witness ==
    /\ effPc = "returned"
    /\ IsChainABC
    /\ effStart = wfSchema[3]
    /\ wfSchema[1].FilterEfficiency = None
    /\ effDepth = 2
    /\ effResult = <<1, 2>>

\* base events per lumi x cumulative efficiency x TimePerEvent is above 45 h
OverTimeout(e) ==
    LET t == Get(e.schema.TimePerEvent, R(0))
    IN  e.epl[1] * e.efficiency[1] * t[1] > 162000 * e.epl[2] * e.efficiency[2] * t[2]

\* C9: a time bound is emitted exactly when base events per lumi x cumulative
\* efficiency x TimePerEvent is strictly above 162000 s; it is 8 * 3600 /
\* TimePerEvent divided by the cumulative efficiency; 5 s, 40000 events and
\* efficiency 1.0 give 5760.
C9_TimeBound ==
    \A k \in DOMAIN timeLog :
        LET e == timeLog[k] IN
        /\ (e.bound # None) <=> OverTimeout(e)
        /\ e.bound # None =>
             e.bound[1] * e.schema.TimePerEvent[1] * e.efficiency[1]
                = 28800 * e.bound[2] * e.schema.TimePerEvent[2] * e.efficiency[2]
        /\ (e.schema.TimePerEvent = R(5) /\ e.epl = R(40000) /\ e.efficiency = R(1))
             => e.bound = R(5760)

\* a call with TimePerEvent 1 s emitted nothing, and the example call for the
\* same task was made and emitted 5760
C9_Witness ==
    /\ Len(timeLog) = 2
    /\ timeLog[1].schema.TimePerEvent = R(1)
    /\ timeLog[1].bound = None
    /\ timeLog[2].schema.TimePerEvent = R(5)
    /\ timeLog[2].epl = R(40000)
    /\ timeLog[2].efficiency = R(1)
    /\ timeLog[2].bound = R(5760)

\* a bound is at most another one; an absent bound is unbounded
BoundLe(a, b) == b = None \/ (a # None /\ RLe(a, b))

\* C10: for the same task and base events per lumi, a larger TimePerEvent never
\* gives a larger time bound, an absent bound counting as unbounded.
C10_Monotone ==
    \A a, b \in DOMAIN timeLog :
        (/\ timeLog[a].schema.InputTask = timeLog[b].schema.InputTask
         /\ timeLog[a].epl = timeLog[b].epl
         /\ RLe(Get(timeLog[a].schema.TimePerEvent, R(0)),
                Get(timeLog[b].schema.TimePerEvent, R(0))))
            => BoundLe(timeLog[b].bound, timeLog[a].bound)

\* two calls for one task with different TimePerEvent both emitted a bound, the
\* one for the larger TimePerEvent being strictly smaller
C10_Witness ==
    /\ Len(timeLog) = 2
    /\ timeLog[1].bound # None
    /\ timeLog[2].bound # None
    /\ RLt(timeLog[1].schema.TimePerEvent, timeLog[2].schema.TimePerEvent)
    /\ RLt(timeLog[2].bound, timeLog[1].bound)

-----------------------------------------------------------------------------
(* Properties of the size calculator *)

\* the stand-alone size call returned a pair whose events-per-lumi bound is set
SizeBoundEmitted == sizeCall # None /\ sizeCall.result # None /\ sizeCall.result.byLumi # None

\* sizePerEvent after line 167: SizePerEvent x efficiency factor x FilterEfficiency
EffectiveSizeOf(c) ==
    RMul(c.schema.SizePerEvent, RMul(c.efficiency, Get(c.schema.FilterEfficiency, R(1))))

\* maxEventsPerLumi of the call, recovered from the emitted bound (line 176)
MaxLumiEventsOf(c) == RMul(c.result.byLumi, c.efficiency)

\* C11: maxEventsPerLumi is floor(space limit x 1024 x 1024 / effective size per
\* event), the largest number of events whose output fits the space limit; for
\* SizePerEvent 2, limit 10 and efficiency factor 1.0 it is 5242880.
C11_BinaryFloor ==
    SizeBoundEmitted
        => /\ MaxLumiEventsOf(sizeCall)
                 = RInt(RDiv(RMul(sizeCall.gbSpaceLimit, R(BinaryFactor)),
                             EffectiveSizeOf(sizeCall)))
           /\ (/\ sizeCall.schema.SizePerEvent = R(2)
               /\ sizeCall.schema.FilterEfficiency = None
               /\ sizeCall.efficiency = R(1)
               /\ sizeCall.gbSpaceLimit = R(10))
                  => MaxLumiEventsOf(sizeCall) = R(5242880)

-----------------------------------------------------------------------------
(* Properties of the conversion policy *)

ConvReturned == convCall # None

\* at least one keyword appears in the processing-string tag or in the workflow name
KeywordAppears(keywords, chain) ==
    \E k \in DOMAIN keywords :
        \/ IsSubstring(keywords[k],
                       JoinItems(chain.ProcessingString, Len(chain.ProcessingString)))
        \/ IsSubstring(keywords[k], chain.wf)

\* the chain's CPU efficiency is defined and exceeds the configured threshold
EfficiencyAcceptable(wf, chain) ==
    /\ EfficiencyError(wf, chain.Multicore) = None
    /\ hasAcceptableEfficiency(getTimeInfo(wf, chain.Multicore), cfg)

\* the criteria of the conversion policy, as stated for a call with the given keywords
ConversionCriteria(wf, chain, keywords) ==
    /\ Len(wf) > 1
    /\ allUniqueTiers(TiersOf(chain.OutputDatasets))
    /\ allSameArches(chain.ScramArch)
    /\ \/ allSameCores(getMulticore(wf, chain.Multicore))
       \/ EfficiencyAcceptable(wf, chain)
    /\ ~hasNonZeroEventStreams(wf)
    /\ keywords # <<>> => KeywordAppears(keywords, chain)

\* C12: isGoodToConvertToStepChain returns True exactly when every criterion holds
\* (more than one task, unique output tiers, one architecture prefix, same cores or
\* acceptable CPU efficiency, no event streams, a keyword found when keywords are
\* given), and False otherwise.
C12_ExactlyCriteria ==
    ConvReturned
        => convCall.returned.result
               = PyBool(ConversionCriteria(wfSchema, convCall.chain, convCall.keywords))

\* the chain's output datasets hold one data tier twice
DuplicateTier(chain) ==
    \E i, j \in DOMAIN chain.OutputDatasets :
        i # j /\ Last(chain.OutputDatasets[i]) = Last(chain.OutputDatasets[j])

\* C13: for a chain whose output datasets hold the same data tier twice,
\* isGoodToConvertToStepChain never returns True, whatever the other criteria are.
C13_DuplicateTierNeverGood ==
    (ConvReturned /\ DuplicateTier(convCall.chain)) => convCall.returned.result # "True"

\* a call on a chain with a duplicated tier that meets every other criterion
C13_Witness ==
    /\ ConvReturned
    /\ DuplicateTier(convCall.chain)
    /\ Len(wfSchema) > 1
    /\ allSameArches(convCall.chain.ScramArch)
    /\ allSameCores(getMulticore(wfSchema, convCall.chain.Multicore))
    /\ ~hasNonZeroEventStreams(wfSchema)
    /\ convCall.keywords # <<>>
    /\ KeywordAppears(convCall.keywords, convCall.chain)
    /\ convCall.returned.result = "False"

-----------------------------------------------------------------------------
(* Properties of the efficiency propagator *)

\* the product of the FilterEfficiency (1.0 when absent) of the task called name and
\* of every task above it; naming no task of the chain gives 1.0
RECURSIVE AncestorFactor(_, _, _)
AncestorFactor(wf, name, fuel) ==
    IF name = None \/ fuel = 0 \/ ~\E k \in DOMAIN wf : wf[k].TaskName = name THEN R(1)
    ELSE LET t == wf[CHOOSE k \in DOMAIN wf : wf[k].TaskName = name]
         IN  RMul(Get(t.FilterEfficiency, R(1)), AncestorFactor(wf, t.InputTask, fuel - 1))

\* C14: _getTaskEfficiencyFactor(schema, acc) is acc times the FilterEfficiency (1.0
\* when absent) of every task reached through InputTask links from schema, schema's
\* own excluded; without InputTask it is acc, and an InputTask naming no task of the
\* chain contributes 1.0 and ends the traversal.
C14_AncestorProduct ==
    effPc = "returned"
        => /\ effResult = AncestorFactor(wfSchema, effStart.InputTask, Len(wfSchema))
           /\ \A acc \in {<<1, 2>>, R(3)} :
                 /\ getTaskEfficiencyFactor(wfSchema, effStart, acc) = RMul(acc, effResult)
                 /\ effStart.InputTask \in {None, ExternalDataset}
                       => getTaskEfficiencyFactor(wfSchema, effStart, acc) = acc

\* the factor of a filtering task below a task that reads an external dataset was
\* computed: one step into the parent, one into the dataset, the parent's 0.5 returned
C14_Witness ==
    /\ effPc = "returned"
    /\ Len(wfSchema) = 3
    /\ effStart = wfSchema[3]
    /\ wfSchema[3].FilterEfficiency = <<2, 5>>
    /\ wfSchema[3].InputTask = wfSchema[2].TaskName
    /\ wfSchema[2].FilterEfficiency = <<1, 2>>
    /\ wfSchema[2].InputTask = ExternalDataset
    /\ effDepth = 2
    /\ effResult = <<1, 2>>

\* the size of the output of n events of the call's task, in GB
OutputGB(c, n) == RDiv(RMul(n, EffectiveSizeOf(c)), R(BinaryFactor))

\* the per-lumi check fires: events per lumi x cumulative efficiency x effective size
\* per event, in GB, exceeds the limit
PerLumiFires(c) == RLt(c.gbSpaceLimit, OutputGB(c, RMul(c.epl, c.efficiency)))

\* the per-job output size exceeds the limit
PerJobExceeds(c) == RLt(c.gbSpaceLimit, OutputGB(c, Get(c.schema.events_per_job, R(0))))

\* maxEventsPerLumi as line 171 computes it
ComputedMaxEventsPerLumi(c) == RInt(RDiv(c.gbSpaceLimit, EffectiveSizeOf(c)))

\* C15: when the per-lumi output size exceeds GB_space_limit the result is
\* (maxEventsPerLumi / ancestor efficiency factor, None), whatever the per-job size
\* is; the per-job check yields its cap only when the per-lumi check did not fire.
C15_PerLumiFirst ==
    (sizeCall # None /\ sizeCall.result # None)
        => /\ PerLumiFires(sizeCall)
                => sizeCall.result
                     = [byLumi |-> RDiv(ComputedMaxEventsPerLumi(sizeCall), sizeCall.efficiency),
                        byJob |-> None]
           /\ sizeCall.result.byJob # None
                => ~PerLumiFires(sizeCall) /\ PerJobExceeds(sizeCall)

\* a call in which both sizes exceed the limit below a filtering ancestor: only the
\* per-lumi bound is returned
C15_Witness ==
    /\ sizeCall # None
    /\ sizeCall.result # None
    /\ sizeCall.efficiency = <<1, 2>>
    /\ PerLumiFires(sizeCall)
    /\ PerJobExceeds(sizeCall)
    /\ sizeCall.result.byLumi # None
    /\ sizeCall.result.byJob = None

-----------------------------------------------------------------------------
(* Properties of the loop of checkSplitting *)

\* an iteration has just ended without raising; its entry is the one before idx
IterationEnded == pc = "loop" /\ idx > 1

\* the entry of the iteration that has just ended was bindable: a base events per lumi
\* was resolved and the entry came with an events_per_job
Bindable == ~Skipped(eventsPerLumi, splittings0[idx - 1].splitParams)

\* the size of the output of n events of the task of the iteration that has just
\* ended, in GB: n x SizePerEvent (corrected) x ancestor efficiency x FilterEfficiency
TaskOutputGB(n) ==
    RDiv(RMul(n, RMul(schema.d.SizePerEvent,
                      RMul(getTaskEfficiencyFactor(wfSchema, schema.d, R(1)),
                           Get(schema.d.FilterEfficiency, R(1))))),
         R(BinaryFactor))

\* the per-lumi output of that task is within the limit, the output of one job of the
\* entry's events_per_job is not
OnlyJobTooLarge ==
    /\ RLe(TaskOutputGB(RMul(eventsPerLumi, getTaskEfficiencyFactor(wfSchema, schema.d, R(1)))),
           cfg.GB_space_limit)
    /\ RLt(cfg.GB_space_limit, TaskOutputGB(splittings0[idx - 1].splitParams.events_per_job))

\* C16: a bindable entry whose per-lumi output size is within GB_space_limit but
\* whose per-job output size (its splitParams.events_per_job x effective size per
\* event) exceeds it has its events_per_job replaced by a cap, in place, and is in
\* the modified list.
C16_EntryJobCapped ==
    (IterationEnded /\ Bindable /\ OnlyJobTooLarge)
        => /\ RLt(splittings[idx - 1].splitParams.events_per_job,
                  splittings0[idx - 1].splitParams.events_per_job)
           /\ (idx - 1) \in Range(modifiedSplittings)

\* the schema of the task of the entry at idx, as _getTaskSchema resolves it
TaskAtIdx == getTaskSchema(wfSchema, Last(splittings[idx].taskName)).d

\* C17: a task whose SizePerEvent is zero or absent makes the size calculation
\* inapplicable and raises no error: checkSplitting does not end in its except clause
\* on such a task unless a lookup of a collaborator failed.
C17_NoSizeNoError ==
    (pc = "failed" /\ ~Truthy(Get(TaskAtIdx.SizePerEvent, R(0)))) => error = Str("LookupError")

\* an iteration of the loop ends without raising
IterationEnds == pc = "loop" /\ idx <= Len(splittings) /\ pc' = "loop"

\* the observed events per lumi of the input dataset: looked up when the task of the
\* entry declares an InputDataset, else what an earlier lookup of the pass gave
ObservedEventsPerLumi == ObservedInput(idx)

\* the first of the three values that is set
FirstSet(own, observed, carried) ==
    IF own # None THEN own ELSE IF observed # None THEN observed ELSE carried

\* C18: the base events per lumi of an entry is its own splitParams.events_per_lumi
\* when set, else the observed events per lumi of the input dataset, else the value
\* carried from the previous iteration; with none of the three, or without
\* events_per_job, the task is skipped: no bound, no modification, no under-fill
\* evaluation.
C18_BaseAndSkip ==
    [][IterationEnds
         => /\ eventsPerLumi' = FirstSet(splittings[idx].splitParams.events_per_lumi,
                                         ObservedEventsPerLumi, eventsPerLumi)
            /\ (eventsPerLumi' = None \/ splittings[idx].splitParams.events_per_job = None)
                 => /\ maxEventsPerLumi' = maxEventsPerLumi
                    /\ splittings' = splittings
                    /\ modifiedSplittings' = modifiedSplittings
                    /\ smallLumi' = smallLumi
                    /\ hold' = hold]_vars


-----------------------------------------------------------------------------
(* Properties of the under-fill check *)

\* the entry of the iteration that is ending is bindable
BindableNext == ~Skipped(eventsPerLumi', splittings[idx].splitParams)

\* the chain may be checked for under-fill at all: no primary input, no RelVal
UnderFillApplies == getIOPrimaries(wfSchema0) = {} /\ ~relval

\* the root entry is bindable in a chain without primary input
RootBindable ==
    /\ Params(splittings0, 1).events_per_job # None
    /\ Truthy(Params(splittings0, 1).events_per_lumi)

\* what the under-fill check finds at the end of the iteration: the least of the
\* base and of the bounds accumulated so far, times the task's own FilterEfficiency,
\* is strictly below min_events_per_lumi_output
UnderFilledNext ==
    RLt(RMul(RMin(<<eventsPerLumi'>> \o maxEventsPerLumi'),
             Get(schema'.d.FilterEfficiency, R(1))),
        cfg.min_events_per_lumi_output)

\* C19 as stated: the under-fill check is evaluated once per chain, for the first
\* bindable task, and for no later task of the pass: after a bindable root entry no
\* later iteration changes what the check found.
C19_Original ==
    [][(IterationEnds /\ idx >= 2 /\ RootBindable) => smallLumi' = smallLumi]_vars

\* C19, amended: in a chain without primary input that is no RelVal request the
\* under-fill check is evaluated for every bindable task until it first detects
\* under-fill; once it has, and for every skipped task, it is not evaluated.
C19_UntilDetected ==
    [][IterationEnds
         => IF ~smallLumi /\ UnderFillApplies /\ BindableNext
            THEN smallLumi' = UnderFilledNext
            ELSE smallLumi' = smallLumi]_vars

\* under-fill was detected at the second task after the check had passed the root
\* task: 40000 x 0.5 events at the root, a time bound of 5760 at the second task
C19_Witness ==
    /\ pc = "loop"
    /\ idx = 3
    /\ smallLumi
    /\ ~relval
    /\ Params(splittings0, 1).events_per_lumi = R(40000)
    /\ Params(splittings0, 1).events_per_job = R(1000)
    /\ wfSchema0[1].TimePerEvent = R(1)
    /\ wfSchema0[1].SizePerEvent = R(8)
    /\ wfSchema0[1].FilterEfficiency = <<1, 2>>
    /\ wfSchema0[1].events_per_job = None
    /\ maxEventsPerLumi = <<R(5760)>>

\* the call returns
Returns == pc = "loop" /\ pc' = "done"

\* C20: when the under-fill check is evaluated for a task it marks the chain held
\* exactly when min(base events per lumi, every bound accumulated so far, this task's
\* included) x the task's own FilterEfficiency (default 1.0) is strictly below
\* min_events_per_lumi_output; for a chain with primary input or a RelVal request it
\* is never evaluated: the loop leaves hold False and a returned hold is the
\* post-loop one.
C20_UnderFillHold ==
    [][/\ (IterationEnds /\ ~smallLumi /\ UnderFillApplies /\ BindableNext)
            => hold' = UnderFilledNext
       /\ (IterationEnds /\ ~UnderFillApplies) => (~hold' /\ ~smallLumi')
       /\ (Returns /\ ~UnderFillApplies /\ result'.hold)
            => (Truthy(inputEventsPerLumi) /\ SomeBoundBelow(inputEventsPerLumi))]_vars

\* the root task was checked and found under-filled because of its own bound: the
\* base times the FilterEfficiency alone is not below the threshold
C20_Witness ==
    /\ pc = "loop"
    /\ idx = 2
    /\ UnderFillApplies
    /\ hold
    /\ maxEventsPerLumi # <<>>
    /\ RLe(cfg.min_events_per_lumi_output,
           RMul(eventsPerLumi, Get(schema.d.FilterEfficiency, R(1))))
    /\ RLt(RMul(RMin(maxEventsPerLumi), Get(schema.d.FilterEfficiency, R(1))),
           cfg.min_events_per_lumi_output)

-----------------------------------------------------------------------------
(* Properties of the CPU efficiency of a chain *)

\* the sum of a sequence of numbers
RECURSIVE SumSeq(_)
SumSeq(s) == IF s = <<>> THEN R(0) ELSE RAdd(Head(s), SumSeq(Tail(s)))

\* every task of the chain declares a TimePerEvent
TimesDeclared(wf) == \A k \in DOMAIN wf : wf[k].TimePerEvent # None

\* t_i = TimePerEvent_i / FilterEfficiency_i
TaskTimes(wf) ==
    [k \in DOMAIN wf |-> RDiv(wf[k].TimePerEvent, Get(wf[k].FilterEfficiency, R(1)))]

\* t_i x min(cores_i, max_nCores_for_stepchain)
CappedCoreTimes(wf, chain) ==
    [k \in DOMAIN wf |->
        RMul(TaskTimes(wf)[k],
             RMin(<<Get(wf[k].Multicore, chain.Multicore), cfg.max_nCores_for_stepchain>>))]

\* the chain's CPU efficiency strictly exceeds the threshold; a total time of zero
\* is not acceptable
EfficiencyExceeds(wf, chain) ==
    /\ TimesDeclared(wf)
    /\ SumSeq(TaskTimes(wf)) # R(0)
    /\ RLt(cfg.efficiency_threshold_for_stepchain,
           RDiv(SumSeq(CappedCoreTimes(wf, chain)),
                RMul(cfg.max_nCores_for_stepchain, SumSeq(TaskTimes(wf)))))

\* every criterion of the conversion policy but the one on cores and efficiency
OtherCriteria(wf, chain, keywords) ==
    /\ Len(wf) > 1
    /\ allUniqueTiers(TiersOf(chain.OutputDatasets))
    /\ allSameArches(chain.ScramArch)
    /\ ~hasNonZeroEventStreams(wf)
    /\ keywords # <<>> => KeywordAppears(keywords, chain)

\* C21: a chain with different core counts that meets every other criterion is good
\* exactly when sum(t_i x min(cores_i, max)) / (max x sum(t_i)) strictly exceeds the
\* threshold, t_i = TimePerEvent_i / FilterEfficiency_i; a total time of zero is not
\* acceptable; with equal core counts the efficiency is not consulted.
C21_CpuEfficiency ==
    (ConvReturned /\ OtherCriteria(wfSchema, convCall.chain, convCall.keywords))
        => IF allSameCores(getMulticore(wfSchema, convCall.chain.Multicore))
           THEN convCall.returned.result = "True"
           ELSE (convCall.returned.result = "True")
                    <=> EfficiencyExceeds(wfSchema, convCall.chain)

\* a chain of 4 and 8 cores with equal times has efficiency 12/16, the threshold
\* itself, and is not good
C21_Witness ==
    /\ ConvReturned
    /\ OtherCriteria(wfSchema, convCall.chain, convCall.keywords)
    /\ ~allSameCores(getMulticore(wfSchema, convCall.chain.Multicore))
    /\ TimesDeclared(wfSchema)
    /\ SumSeq(TaskTimes(wfSchema)) # R(0)
    /\ RDiv(SumSeq(CappedCoreTimes(wfSchema, convCall.chain)),
            RMul(cfg.max_nCores_for_stepchain, SumSeq(TaskTimes(wfSchema))))
          = cfg.efficiency_threshold_for_stepchain
    /\ convCall.returned.result = "False"

-----------------------------------------------------------------------------
(* Further properties of the bound calculator *)

\* absent, or strictly positive
AbsentOrPositive(x) == x = None \/ RLt(R(0), x)

\* C22: every events-per-lumi bound and every events-per-job cap the size calculation
\* produces is absent or strictly positive; a violated budget never yields zero.
C22_BoundsPositive ==
    (sizeCall # None /\ sizeCall.result # None)
        => /\ AbsentOrPositive(sizeCall.result.byLumi)
           /\ AbsentOrPositive(sizeCall.result.byJob)

-----------------------------------------------------------------------------
(* Termination of the efficiency propagator *)

\* the position of the first task named name, 0 if there is none
IndexOfTask(wf, name) ==
    IF \E k \in DOMAIN wf : wf[k].TaskName = name
    THEN CHOOSE k \in DOMAIN wf :
            /\ wf[k].TaskName = name
            /\ \A m \in DOMAIN wf : wf[m].TaskName = name => k <= m
    ELSE 0

\* every InputTask reference names a strictly earlier task
WellFormedChain(wf) ==
    \A k \in DOMAIN wf :
        wf[k].InputTask # None
            => (IndexOfTask(wf, wf[k].InputTask) \in 1..(k - 1))

\* following the InputTask references from task k for n steps never ends
RECURSIVE WalkNeverEnds(_, _, _)
WalkNeverEnds(wf, k, n) ==
    IF n = 0 THEN TRUE
    ELSE IF k = 0 THEN FALSE
    ELSE IF wf[k].InputTask = None THEN FALSE
    ELSE WalkNeverEnds(wf, IndexOfTask(wf, wf[k].InputTask), n - 1)

\* the references walked from task k lead into a self-reference or a cycle
ReachesCycle(wf, k) == WalkNeverEnds(wf, k, Len(wf) + 1)

\* the chain holds a self-referential or cyclic InputTask reference
HasCycle(wf) == \E k \in DOMAIN wf : ReachesCycle(wf, k)

\* the task the propagator was called on
StartIdx == IndexOfTask(wfSchema, effStart.TaskName)

\* on a well-formed chain the recursion takes at most as many steps as the chain
\* has tasks and is never cut off
BoundedOnWellFormed ==
    (effPc # "idle" /\ WellFormedChain(wfSchema))
        => (effDepth <= Len(wfSchema) /\ effPc # "overflow")

\* C23 as stated: the propagator terminates within as many recursive steps as
\* the chain has tasks when every InputTask names a strictly earlier task, and on
\* a chain with a self-referential or cyclic reference it never reaches its
\* terminal case.
C23_Original ==
    /\ BoundedOnWellFormed
    /\ (effPc # "idle" /\ HasCycle(wfSchema)) => effPc # "returned"

\* C23, amended: the propagator terminates within as many recursive steps as the
\* chain has tasks when every InputTask names a strictly earlier task; a call
\* whose walk along the InputTask references leads into a self-reference or a
\* cycle never reaches its terminal case, and every other call returns.
C23_Termination ==
    /\ BoundedOnWellFormed
    /\ (effPc # "idle" /\ ReachesCycle(wfSchema, StartIdx)) => effPc # "returned"
    /\ (effPc # "idle" /\ ~ReachesCycle(wfSchema, StartIdx)) => effPc # "overflow"

\* a call on Digi, which reads GenSim, which reads Digi, was cut off at the limit
C23_Witness ==
    /\ effPc = "overflow"
    /\ effStart.TaskName = TaskNameOf[2]
    /\ wfSchema[1].InputTask = TaskNameOf[2]
    /\ wfSchema[2].InputTask = TaskNameOf[1]
    /\ effDepth = RecursionLimit

-----------------------------------------------------------------------------
(* What a clean result of checkSplitting says about the budgets *)

\* the schema the loop reads for entry k, its SizePerEvent corrected
EntrySchema(k) ==
    LET d == getTaskSchema(wfSchema, Last(splittings0[k].taskName)).d
    IN  [d EXCEPT !.SizePerEvent =
            RMul(d.SizePerEvent,
                 getOutputSizeCorrectionFactor(cfg.output_size_correction,
                                               Last(splittings0[k].taskName)))]

\* the input events per lumi the loop holds after entry k
RECURSIVE EntryInput(_)
EntryInput(k) ==
    IF k = 0 THEN None
    ELSE IF EntrySchema(k).InputDataset # None
    THEN getDatasetEventsPerLumi(dbs, SchemaGet(EntrySchema(k), EntrySchema(k).InputDataset))
    ELSE EntryInput(k - 1)

\* the base events per lumi the loop uses for entry k
RECURSIVE EntryBase(_)
EntryBase(k) ==
    IF k = 0 THEN None
    ELSE BaseEventsPerLumi(splittings0[k].splitParams, EntryInput(k), EntryBase(k - 1))

\* entry k is bound: it has a base and an events_per_job
EntryBindable(k) == ~Skipped(EntryBase(k), splittings0[k].splitParams)

\* base x cumulative efficiency x TimePerEvent of entry k is over 45 h
EntryOverTime(k) ==
    RLt(R(TimeoutHours * SecondsPerHour),
        RMul(RMul(EntryBase(k), getTaskEfficiencyFactor(wfSchema, EntrySchema(k), R(1))),
             Get(EntrySchema(k).TimePerEvent, R(0))))

\* the output of one lumi of entry k, in GB, as lines 164-173 compute it
EntryLumiGB(k) ==
    LET d == EntrySchema(k)
        f == getTaskEfficiencyFactor(wfSchema, d, R(1))
    IN  RDiv(RMul(RMul(EntryBase(k), f),
                  RMul(d.SizePerEvent, RMul(f, Get(d.FilterEfficiency, R(1))))),
             R(BinaryFactor))

\* the recomputed base is the one the loop used for the entry it has just left
BaseRecomputed == IterationEnded => EntryBase(idx - 1) = eventsPerLumi

\* C24: when checkSplitting returns hold = False and an empty modified list, no
\* bound task is over the 45 h time budget or over GB_space_limit per lumi at the
\* base events per lumi used for it.
C24_CleanMeansWithinBudget ==
    (Returned /\ ~result.hold /\ result.modified = <<>>)
        => \A k \in DOMAIN splittings0 :
              EntryBindable(k)
                  => /\ ~EntryOverTime(k)
                     /\ RLe(EntryLumiGB(k), cfg.GB_space_limit)

-----------------------------------------------------------------------------
(* What checkSplitting writes into the entries *)

\* the step appends an entry to the modified list, having written into it
WritesEntry == pc = "loop" /\ Len(modifiedSplittings') > Len(modifiedSplittings)

\* the value the step has written is strictly below the one the entry held
\* when the call began
WrittenBelowHeld ==
    IF pc' = "done"
    THEN RLt(splittings'[1].splitParams.events_per_lumi,
             splittings0[1].splitParams.events_per_lumi)
    ELSE RLt(splittings'[idx].splitParams.events_per_job,
             splittings0[idx].splitParams.events_per_job)

\* C25: every value checkSplitting writes into an entry's events_per_job or
\* events_per_lumi is strictly smaller than the value the entry held before the
\* call.
C25_NeverIncreases == [][WritesEntry => WrittenBelowHeld]_vars

-----------------------------------------------------------------------------
(* The time bound as a new base *)

\* the processing time of one lumi of e's task at the base n, in seconds
TimeAtBase(e, n) == RMul(RMul(n, e.efficiency), Get(e.schema.TimePerEvent, R(0)))

\* C26: an emitted time bound is strictly smaller than the base it was computed
\* for; at the bound as the new base the processing time equals the 8 h target,
\* and the time check emits nothing.
C26_BoundBelowBase ==
    \A i \in DOMAIN timeLog :
        timeLog[i].bound # None
            => /\ RLt(timeLog[i].bound, timeLog[i].epl)
               /\ TimeAtBase(timeLog[i], timeLog[i].bound) = R(TargetHours * SecondsPerHour)
               /\ RLt(R(TargetHours * SecondsPerHour), R(TimeoutHours * SecondsPerHour))
               /\ getTaskMaxEventsByTime(wfSchema, timeLog[i].schema, timeLog[i].bound) = None

\* a bound was emitted for a task behind a filter
C26_Witness ==
    \E i \in DOMAIN timeLog :
        /\ timeLog[i].bound # None
        /\ timeLog[i].efficiency # R(1)
        /\ RLt(timeLog[i].bound, timeLog[i].epl)
        /\ TimeAtBase(timeLog[i], timeLog[i].bound) = R(TargetHours * SecondsPerHour)

-----------------------------------------------------------------------------
(* The modified list *)

\* C27: the modified list checkSplitting returns holds each entry at most once,
\* also when the first entry has its events_per_job capped in the loop and its
\* events_per_lumi rewritten after the loop.
C27_ModifiedOnce ==
    Returned
        => \A i, j \in DOMAIN result.modified :
              i # j => result.modified[i] # result.modified[j]

-----------------------------------------------------------------------------
(* The type of the conversion result *)

\* C28: isGoodToConvertToStepChain returns a boolean for every chain schema, also
\* for a malformed one; an internal failure yields False, never None.
C28_AlwaysBoolean ==
    ConvReturned => convCall.returned.result \in {"True", "False"}

-----------------------------------------------------------------------------
(* The size check of a step chain *)

\* the limit of a step chain's job: Multicore x GB_space_limit
StepLimit == RMul(wfSchema.Multicore, cfg.GB_space_limit)

\* events_per_job x SizePerEvent of an entry, in GB
StepEntryGB(e) ==
    RDiv(RMul(Get(e.splitParams.events_per_job, R(0)), Get(wfSchema.SizePerEvent, R(0))),
         R(BinaryFactor))

\* the entries that were over the limit when the call began
StepOverBefore == {k \in DOMAIN splittings0 : RLt(StepLimit, StepEntryGB(splittings0[k]))}

\* what the claim says of a call that has returned a pair
StepResultWithinLimit ==
    /\ result.hold = FALSE
    /\ \A k \in DOMAIN splittings : RLe(StepEntryGB(splittings[k]), StepLimit)
    /\ Range(result.modified) = StepOverBefore
    /\ Len(result.modified) = Cardinality(StepOverBefore)
    /\ \A k \in DOMAIN splittings :
          k \notin StepOverBefore => splittings[k] = splittings0[k]
    /\ pass >= 2 => (result.modified = <<>> /\ splittings = splittings0)

\* C29: every call of checkSplittingsSize on a step chain returns hold = False;
\* after it every entry is within Multicore x GB_space_limit, the modified list
\* holds exactly the entries that were over the limit before the call, the others
\* are unchanged, and a second call on the result modifies nothing.
C29_StepChainSize == pass >= 1 => (result # None /\ StepResultWithinLimit)

=============================================================================
